---- MODULE Spec2Model ----
(***************************************************************************)
(* SLD naming popularity analysis (src/main.py): the pipeline              *)
(*   fetch -> extract_icann_domains -> parse_domains ->                    *)
(*   calculate_frequencies -> write_csv x2 -> write_json x2 -> top 10.     *)
(* A Python str is modelled as a sequence of one-character strings, so     *)
(* that strip, lstrip, split, startswith, `in` and the ordering of str     *)
(* are computed character by character as Python computes them.            *)
(***************************************************************************)
EXTENDS Integers, Sequences, FiniteSets, TLC

VARIABLES
    pc,                     \* the statement of main() (or of the parse loop) reached
    error,                  \* the exception that ended the run, "none" while running
    response,               \* the text the URL serves (the input of the run)
    psl_content,            \* main: psl_content
    icann_lines,            \* main: icann_lines / parse_domains: lines
    exclude_tlds,           \* parse_domains: exclude_tlds
    pos,                    \* parse_domains: number of lines the for loop has consumed
    parts,                  \* parse_domains: the local `parts` as last assigned
    component_tlds,         \* defaultdict(set):  component -> set of TLDs
    component_total_count,  \* defaultdict(int):  component -> occurrences
    tld_components,         \* defaultdict(list): TLD -> components in input order
    total_freq,             \* main: total_freq
    unique_tld_freq,        \* main: unique_tld_freq
    files,                  \* the file system: file name -> what was written
    top_total,              \* main: the printed sorted_total[:10]
    top_unique              \* main: the printed sorted_unique[:10]

vars == <<pc, error, response, psl_content, icann_lines, exclude_tlds, pos, parts,
          component_tlds, component_total_count, tld_components,
          total_freq, unique_tld_freq, files, top_total, top_unique>>

indexes == <<component_tlds, component_total_count, tld_components>>

---------------------------------------------------------------------------
(* Bounds of the model.                                                    *)

\* the served text has at most this many lines
MaxTextLines == 5

\* parse_domains is given at most this many lines when checked on its own
MaxParseLines == 2

---------------------------------------------------------------------------
(* Python str primitives.                                                  *)

\* ord(): the code point of each character the inputs use
Ord ==
    ("\t" :> 9) @@ ("\n" :> 10) @@ ("\r" :> 13) @@ (" " :> 32) @@ ("!" :> 33) @@
    ("*" :> 42) @@ ("." :> 46) @@ ("/" :> 47) @@ ("=" :> 61) @@ ("A" :> 65) @@
    ("B" :> 66) @@ ("C" :> 67) @@ ("D" :> 68) @@ ("E" :> 69) @@ ("G" :> 71) @@
    ("I" :> 73) @@ ("M" :> 77) @@ ("N" :> 78) @@ ("O" :> 79) @@ ("S" :> 83) @@
    ("a" :> 97) @@ ("b" :> 98) @@ ("c" :> 99) @@ ("d" :> 100) @@ ("e" :> 101) @@
    ("f" :> 102) @@ ("g" :> 103) @@ ("h" :> 104) @@ ("i" :> 105) @@ ("j" :> 106) @@
    ("k" :> 107) @@ ("l" :> 108) @@ ("m" :> 109) @@ ("n" :> 110) @@ ("o" :> 111) @@
    ("p" :> 112) @@ ("q" :> 113) @@ ("r" :> 114) @@ ("s" :> 115) @@ ("t" :> 116) @@
    ("u" :> 117) @@ ("v" :> 118) @@ ("w" :> 119) @@ ("x" :> 120) @@ ("y" :> 121) @@
    ("z" :> 122)

\* the characters str.strip() removes, among those of Ord
Whitespace == {" ", "\t", "\n", "\r"}

\* a < b on str: lexicographic by code point
RECURSIVE StrLess(_, _)
StrLess(a, b) ==
    IF b = <<>> THEN FALSE
    ELSE IF a = <<>> THEN TRUE
    ELSE IF Head(a) = Head(b) THEN StrLess(Tail(a), Tail(b))
    ELSE Ord[Head(a)] < Ord[Head(b)]

\* sub in s
Contains(sub, s) ==
    \E i \in 1..(Len(s) - Len(sub) + 1) : SubSeq(s, i, i + Len(sub) - 1) = sub

\* s.startswith(prefix)
StartsWith(s, prefix) ==
    Len(s) >= Len(prefix) /\ SubSeq(s, 1, Len(prefix)) = prefix

\* s.lstrip(chars): every leading character that is in chars is removed
RECURSIVE lstrip(_, _)
lstrip(s, chars) ==
    IF s # <<>> /\ Head(s) \in chars THEN lstrip(Tail(s), chars) ELSE s

\* s.rstrip(chars)
RECURSIVE rstrip(_, _)
rstrip(s, chars) ==
    IF s # <<>> /\ s[Len(s)] \in chars THEN rstrip(SubSeq(s, 1, Len(s) - 1), chars) ELSE s

\* s.strip()
strip(s) == rstrip(lstrip(s, Whitespace), Whitespace)

\* s.split(sep) for a one-character sep: the piece before the first sep, then
\* the split of what follows it
RECURSIVE split(_, _)
split(s, sep) ==
    IF \A i \in 1..Len(s) : s[i] # sep THEN <<s>>
    ELSE LET first == CHOOSE i \in 1..Len(s) : s[i] = sep /\ \A j \in 1..(i - 1) : s[j] # sep
         IN  <<SubSeq(s, 1, first - 1)>> \o split(SubSeq(s, first + 1, Len(s)), sep)

\* sep.join(pieces): the text whose split(sep) is pieces
RECURSIVE Join(_, _)
Join(pieces, sep) ==
    IF Len(pieces) = 0 THEN <<>>
    ELSE IF Len(pieces) = 1 THEN pieces[1]
    ELSE pieces[1] \o <<sep>> \o Join(Tail(pieces), sep)

\* seq[a:b] for 0 <= a, b <= len(seq)
Slice(seq, a, b) == SubSeq(seq, a + 1, b)

Range(seq) == {seq[i] : i \in 1..Len(seq)}

---------------------------------------------------------------------------
(* extract_icann_domains                                                   *)

start_marker ==
    <<"/", "/", " ", "=", "=", "=", "B", "E", "G", "I", "N", " ", "I", "C", "A", "N",
      "N", " ", "D", "O", "M", "A", "I", "N", "S", "=", "=", "=">>

end_marker ==
    <<"/", "/", " ", "=", "=", "=", "E", "N", "D", " ", "I", "C", "A", "N", "N", " ",
      "D", "O", "M", "A", "I", "N", "S", "=", "=", "=">>

\* Python's None for start_idx and end_idx, which are otherwise >= 0
None == -1

\* a plausible slip: only the first start marker sets start_idx
StartIdxKeepFirst(start_idx, idx) == IF start_idx = None THEN idx + 1 ELSE start_idx

\* the assignment `start_idx = idx + 1`, made at every line holding the start marker
StartIdxAtMarker(start_idx, idx) == idx + 1

\* the for loop over enumerate(lines), from the 0-based index idx on
RECURSIVE ScanMarkers(_, _, _)
ScanMarkers(lines, idx, start_idx) ==
    IF idx >= Len(lines) THEN [start_idx |-> start_idx, end_idx |-> None]
    ELSE IF Contains(start_marker, lines[idx + 1])
         THEN ScanMarkers(lines, idx + 1, StartIdxAtMarker(start_idx, idx))
    ELSE IF Contains(end_marker, lines[idx + 1])
         THEN [start_idx |-> start_idx, end_idx |-> idx]
    ELSE ScanMarkers(lines, idx + 1, start_idx)

\* a plausible slip: end_idx is not tested
StartMarkerMissing(found) == found.start_idx = None

\* the test `start_idx is None or end_idx is None`
MarkersMissing(found) == found.start_idx = None \/ found.end_idx = None

\* the whole function: raised is TRUE for the ValueError
extract_icann_domains(content) ==
    LET lines == split(content, "\n")
        found == ScanMarkers(lines, 0, None)
    IN  IF MarkersMissing(found)
        THEN [raised |-> TRUE, lines |-> <<>>]
        ELSE [raised |-> FALSE, lines |-> Slice(lines, found.start_idx, found.end_idx)]

---------------------------------------------------------------------------
(* parse_domains                                                           *)

\* the default of the parameter exclude_tlds: {'it', 'jp', 'no'}
DefaultExcludeTlds == {<<"i", "t">>, <<"j", "p">>, <<"n", "o">>}

\* a dict with no key
EmptyDict == [k \in {} |-> 0]

\* a plausible slip: one leading '*' and then one leading '!' are removed
RemoveOneMarkerEach(line) ==
    LET noStar == IF line # <<>> /\ Head(line) = "*" THEN Tail(line) ELSE line
    IN  IF noStar # <<>> /\ Head(noStar) = "!" THEN Tail(noStar) ELSE noStar

\* line.lstrip('*').lstrip('!')
RemoveMarkers(line) == lstrip(lstrip(line, {"*"}), {"!"})

\* [p for p in parts if p]
NonEmptyParts(ps) == SelectSeq(ps, LAMBDA p : p # <<>>)

\* component_tlds[component].add(tld), on a defaultdict(set)
AddTld(ct, component, tld) ==
    IF component \in DOMAIN ct
    THEN [ct EXCEPT ![component] = @ \cup {tld}]
    ELSE ct @@ (component :> {tld})

\* a plausible slip: `= 1` for `+= 1`
SetCountToOne(cc, component) ==
    IF component \in DOMAIN cc
    THEN [cc EXCEPT ![component] = 1]
    ELSE cc @@ (component :> 1)

\* component_total_count[component] += 1, on a defaultdict(int)
IncrementCount(cc, component) ==
    IF component \in DOMAIN cc
    THEN [cc EXCEPT ![component] = @ + 1]
    ELSE cc @@ (component :> 1)

\* a plausible slip: a component already in the TLD's list is not appended again
AppendComponentOnce(tc, tld, component) ==
    IF tld \in DOMAIN tc
    THEN IF \E i \in 1..Len(tc[tld]) : tc[tld][i] = component
         THEN tc
         ELSE [tc EXCEPT ![tld] = Append(@, component)]
    ELSE tc @@ (tld :> <<component>>)

\* tld_components[tld].append(component), on a defaultdict(list)
AppendComponent(tc, tld, component) ==
    IF tld \in DOMAIN tc
    THEN [tc EXCEPT ![tld] = Append(@, component)]
    ELSE tc @@ (tld :> <<component>>)

\* a plausible slip: the test reads the default set, not the parameter
IsExcludedByDefault(tld, exclude) == tld \in DefaultExcludeTlds

\* the test `tld in exclude_tlds`
IsExcluded(tld, exclude) == tld \in exclude

\* the loop `for component in parts[:-1]`, over the components still to visit
RECURSIVE IndexComponents(_, _, _)
IndexComponents(st, components, tld) ==
    IF components = <<>> THEN st
    ELSE IF Head(components) = <<>> THEN IndexComponents(st, Tail(components), tld)
    ELSE IndexComponents(
             [st EXCEPT !.component_tlds = AddTld(@, Head(components), tld),
                        !.component_total_count = IncrementCount(@, Head(components)),
                        !.tld_components = AppendComponent(@, tld, Head(components))],
             Tail(components), tld)

\* one iteration of `for line in lines`, on the locals and the three indexes
ParseLineBody(st, raw, exclude) ==
    LET line == strip(raw)
    IN  IF line = <<>> \/ StartsWith(line, <<"/", "/">>) THEN st
        ELSE LET ps == NonEmptyParts(split(RemoveMarkers(line), "."))
                 st1 == [st EXCEPT !.parts = ps]
             IN  IF Len(ps) < 2 THEN st1
                 ELSE IF IsExcluded(ps[Len(ps)], exclude) THEN st1
                 ELSE IndexComponents(st1, SubSeq(ps, 1, Len(ps) - 1), ps[Len(ps)])

\* the indexes and locals before the loop
EmptyIndexes ==
    [parts |-> <<>>, component_tlds |-> EmptyDict,
     component_total_count |-> EmptyDict, tld_components |-> EmptyDict]

\* the loop `for line in lines` from the state st on
RECURSIVE ParseLines(_, _, _)
ParseLines(st, lines, exclude) ==
    IF lines = <<>> THEN st
    ELSE ParseLines(ParseLineBody(st, Head(lines), exclude), Tail(lines), exclude)

\* the whole function: the locals and the three indexes when it returns
parse_domains(lines, exclude) == ParseLines(EmptyIndexes, lines, exclude)

---------------------------------------------------------------------------
(* calculate_frequencies                                                   *)

\* dict(component_total_count)
TotalFreq(cc) == cc

\* a plausible slip: len(component) for len(tlds)
ComponentLengths(ct) == [c \in DOMAIN ct |-> Len(c)]

\* {component: len(tlds) for component, tlds in component_tlds.items()}
UniqueTldFreq(ct) == [c \in DOMAIN ct |-> Cardinality(ct[c])]

---------------------------------------------------------------------------
(* sorted() and the writers                                                *)

\* a plausible slip: the count is not negated
SortKeyAscending(s, n) == <<n, s>>

\* the sort key lambda x: (-x[1], x[0])
SortKey(s, n) == <<-n, s>>

\* k1 < k2 on the (int, str) key tuples
KeyLess(k1, k2) ==
    k1[1] < k2[1] \/ (k1[1] = k2[1] /\ StrLess(k1[2], k2[2]))

\* sorted(): the items of S in ascending key order (the keys of S are distinct)
RECURSIVE SortedByKey(_)
SortedByKey(S) ==
    IF S = {} THEN <<>>
    ELSE LET m == CHOOSE x \in S : \A y \in S \ {x} : KeyLess(x.key, y.key)
         IN  <<m.item>> \o SortedByKey(S \ {m})

\* sorted(data.items(), key=lambda x: (-x[1], x[0]))
RankedItems(data) ==
    SortedByKey({[key |-> SortKey(c, data[c]), item |-> <<c, data[c]>>] : c \in DOMAIN data})

\* sorted(strings): ascending str order
SortedStrings(S) == SortedByKey({[key |-> <<0, s>>, item |-> s] : s \in S})

\* reading d[k] for every k of keys on a defaultdict: a missing key is inserted
\* with the default value
ReadDefault(d, keys, default) ==
    [k \in DOMAIN d \cup keys |-> IF k \in DOMAIN d THEN d[k] ELSE default]

\* a plausible slip: the count is left out of the key
RankedByNameOnly(components, cc) ==
    SortedByKey({[key |-> <<0, c>>, item |-> c] : c \in components})

\* sorted(components, key=lambda x: (-component_total_count[x], x))
RankedComponents(components, cc) ==
    SortedByKey({[key |-> SortKey(c, cc[c]), item |-> c] : c \in components})

\* what write_csv writes: the header row, then the ranked rows
write_csv(data) ==
    [header |-> <<"string", "frequency">>, rows |-> RankedItems(data)]

\* the keys write_json_string_to_tlds looks up in component_total_count
StringWriterCountReads(ct) == DOMAIN ct

\* what write_json_string_to_tlds dumps, as the ordered (key, value) pairs of data
write_json_string_to_tlds(ct, cc) ==
    LET sorted_components == RankedComponents(DOMAIN ct, cc)
    IN  [i \in 1..Len(sorted_components) |->
            [key |-> sorted_components[i],
             count |-> cc[sorted_components[i]],
             tlds |-> SortedStrings(ct[sorted_components[i]])]]

\* a plausible slip: the count of the TLD itself is looked up as well
TldWriterCountReadsWithTlds(tc) ==
    DOMAIN tc \cup UNION {Range(tc[t]) : t \in DOMAIN tc}

\* the keys write_json_tld_to_strings looks up in component_total_count
TldWriterCountReads(tc) == UNION {Range(tc[t]) : t \in DOMAIN tc}

\* list(set(tld_components[tld]))
UniqueComponents(list) == Range(list)

\* what write_json_tld_to_strings dumps, as the ordered (key, value) pairs of data
write_json_tld_to_strings(tc, cc) ==
    LET tlds == SortedStrings(DOMAIN tc)
    IN  [i \in 1..Len(tlds) |->
            [key |-> tlds[i],
             strings |-> RankedComponents(UniqueComponents(tc[tlds[i]]), cc)]]

\* the slice [:10] of the two printed lists
TopN == 10

\* sorted(freq.items(), key=lambda x: (-x[1], x[0]))[:10]
Top(freq) ==
    LET ranked == RankedItems(freq)
    IN  SubSeq(ranked, 1, IF Len(ranked) < TopN THEN Len(ranked) ELSE TopN)

---------------------------------------------------------------------------
(* Inputs.                                                                 *)

\* the lines a served text is made of: the two marker lines, a line holding
\* both markers, two suffix patterns (one of an excluded TLD) and a blank line
TextPool ==
    { start_marker,
      end_marker,
      end_marker \o <<" ">> \o start_marker,
      <<"c", "o", ".", "u", "k">>,
      <<"a", ".", "j", "p">>,
      <<>> }

\* the served texts: at most MaxTextLines lines joined by newlines
Texts ==
    UNION { {Join(ls, "\n") : ls \in [1..n -> TextPool]} : n \in 1..MaxTextLines }

\* the lines parse_domains is given when it is checked on its own
LinePool ==
    { <<"a", "c">>,                                    \* ac
      <<"c", "o", "m", ".", "a", "c">>,                \* com.ac
      <<"c", "o", "m", ".", "u", "k">>,                \* com.uk
      <<"*", ".", "s", "c", "h", ".", "u", "k">>,      \* *.sch.uk
      <<"!", "e", "d", "u", "c", ".", "a", "r">>,      \* !educ.ar
      <<"c", "o", ".", "j", "p">>,                     \* co.jp
      <<"a", ".", "a", ".", "u", "k">>,                \* a.a.uk
      <<"*", "*", ".", "b", ".", "a", "c">>,           \* **.b.ac
      <<"!", "!", "b", ".", "a", "c">>,                \* !!b.ac
      <<"!", "*", "a", ".", "a", "c">>,                \* !*a.ac
      <<"/", "/", " ", "x", ".", "u", "k">>,           \* // x.uk
      <<" ", " ">>,                                    \* two spaces
      <<"\t", "z", ".", "a", ".", "u", "k", "\r">>,    \* \tz.a.uk\r
      <<"a", ".", "b", ".", "c", ".", "d", ".", "e", ".", "f", ".", "g", ".",
        "h", ".", "i", ".", "j", ".", "k", ".", "u", "k">> }  \* a.b.c.d.e.f.g.h.i.j.k.uk

LineSeqs == UNION { [1..n -> LinePool] : n \in 0..MaxParseLines }

\* the exclusion sets parse_domains is given when it is checked on its own
ExcludeChoices ==
    {DefaultExcludeTlds} \cup SUBSET {<<"u", "k">>, <<"a", "c">>}

---------------------------------------------------------------------------
(* The run of main().                                                      *)

NotStarted ==
    /\ error = "none"
    /\ psl_content = <<>>
    /\ pos = 0
    /\ parts = <<>>
    /\ component_tlds = EmptyDict
    /\ component_total_count = EmptyDict
    /\ tld_components = EmptyDict
    /\ total_freq = EmptyDict
    /\ unique_tld_freq = EmptyDict
    /\ files = EmptyDict
    /\ top_total = <<>>
    /\ top_unique = <<>>

\* main() is about to fetch one of the texts
Init ==
    /\ pc = "fetch"
    /\ response \in Texts
    /\ icann_lines = <<>>
    /\ exclude_tlds = DefaultExcludeTlds
    /\ NotStarted

\* parse_domains(lines, exclude_tlds) is about to run on given arguments
InitParse ==
    /\ pc = "parse"
    /\ response = <<>>
    /\ icann_lines \in LineSeqs
    /\ exclude_tlds \in ExcludeChoices
    /\ NotStarted

\* fetch_psl returns the served text
Fetch ==
    /\ pc = "fetch"
    /\ psl_content' = response
    /\ pc' = "extract"
    /\ UNCHANGED <<error, response, icann_lines, exclude_tlds, pos, parts, indexes,
                   total_freq, unique_tld_freq, files, top_total, top_unique>>

\* urlopen raises: the run ends
FetchFails ==
    /\ pc = "fetch"
    /\ pc' = "failed"
    /\ error' = "URLError"
    /\ UNCHANGED <<response, psl_content, icann_lines, exclude_tlds, pos, parts, indexes,
                   total_freq, unique_tld_freq, files, top_total, top_unique>>

\* icann_lines = extract_icann_domains(psl_content), or its ValueError ends the run
Extract ==
    /\ pc = "extract"
    /\ LET r == extract_icann_domains(psl_content)
       IN  IF r.raised
           THEN /\ pc' = "failed"
                /\ error' = "ValueError"
                /\ UNCHANGED icann_lines
           ELSE /\ pc' = "parse"
                /\ icann_lines' = r.lines
                /\ UNCHANGED error
    /\ UNCHANGED <<response, psl_content, exclude_tlds, pos, parts, indexes,
                   total_freq, unique_tld_freq, files, top_total, top_unique>>

\* one iteration of the loop of parse_domains
ParseLine ==
    /\ pc = "parse"
    /\ pos < Len(icann_lines)
    /\ LET st == ParseLineBody(
                     [parts |-> parts,
                      component_tlds |-> component_tlds,
                      component_total_count |-> component_total_count,
                      tld_components |-> tld_components],
                     icann_lines[pos + 1], exclude_tlds)
       IN  /\ parts' = st.parts
           /\ component_tlds' = st.component_tlds
           /\ component_total_count' = st.component_total_count
           /\ tld_components' = st.tld_components
    /\ pos' = pos + 1
    /\ UNCHANGED <<pc, error, response, psl_content, icann_lines, exclude_tlds,
                   total_freq, unique_tld_freq, files, top_total, top_unique>>

\* the loop is over: parse_domains returns the three indexes
ParseReturn ==
    /\ pc = "parse"
    /\ pos = Len(icann_lines)
    /\ pc' = "calculate"
    /\ UNCHANGED <<error, response, psl_content, icann_lines, exclude_tlds, pos, parts,
                   indexes, total_freq, unique_tld_freq, files, top_total, top_unique>>

\* total_freq, unique_tld_freq = calculate_frequencies(...)
CalculateFrequencies ==
    /\ pc = "calculate"
    /\ total_freq' = TotalFreq(component_total_count)
    /\ unique_tld_freq' = UniqueTldFreq(component_tlds)
    /\ pc' = "write_csv_total"
    /\ UNCHANGED <<error, response, psl_content, icann_lines, exclude_tlds, pos, parts,
                   indexes, files, top_total, top_unique>>

\* write_csv('sld_popularity_total.csv', total_freq)
WriteCsvTotal ==
    /\ pc = "write_csv_total"
    /\ files' = files @@ ("sld_popularity_total.csv" :> write_csv(total_freq))
    /\ pc' = "write_csv_unique"
    /\ UNCHANGED <<error, response, psl_content, icann_lines, exclude_tlds, pos, parts,
                   indexes, total_freq, unique_tld_freq, top_total, top_unique>>

\* write_csv('sld_popularity_unique_tld.csv', unique_tld_freq)
WriteCsvUnique ==
    /\ pc = "write_csv_unique"
    /\ files' = files @@ ("sld_popularity_unique_tld.csv" :> write_csv(unique_tld_freq))
    /\ pc' = "write_json_string"
    /\ UNCHANGED <<error, response, psl_content, icann_lines, exclude_tlds, pos, parts,
                   indexes, total_freq, unique_tld_freq, top_total, top_unique>>

\* write_json_string_to_tlds('sld_string_to_tlds.json', component_tlds,
\* component_total_count): every count it reads goes through the defaultdict
WriteJsonStringToTlds ==
    /\ pc = "write_json_string"
    /\ component_total_count' =
           ReadDefault(component_total_count, StringWriterCountReads(component_tlds), 0)
    /\ files' = files @@ ("sld_string_to_tlds.json" :>
                    write_json_string_to_tlds(component_tlds, component_total_count'))
    /\ pc' = "write_json_tld"
    /\ UNCHANGED <<error, response, psl_content, icann_lines, exclude_tlds, pos, parts,
                   component_tlds, tld_components, total_freq, unique_tld_freq,
                   top_total, top_unique>>

\* write_json_tld_to_strings('sld_tld_to_strings.json', tld_components,
\* component_total_count): every count it reads goes through the defaultdict
WriteJsonTldToStrings ==
    /\ pc = "write_json_tld"
    /\ component_total_count' =
           ReadDefault(component_total_count, TldWriterCountReads(tld_components), 0)
    /\ files' = files @@ ("sld_tld_to_strings.json" :>
                    write_json_tld_to_strings(tld_components, component_total_count'))
    /\ pc' = "top10"
    /\ UNCHANGED <<error, response, psl_content, icann_lines, exclude_tlds, pos, parts,
                   component_tlds, tld_components, total_freq, unique_tld_freq,
                   top_total, top_unique>>

\* the two top-10 lists main prints
PrintTop10 ==
    /\ pc = "top10"
    /\ top_total' = Top(total_freq)
    /\ top_unique' = Top(unique_tld_freq)
    /\ pc' = "done"
    /\ UNCHANGED <<error, response, psl_content, icann_lines, exclude_tlds, pos, parts,
                   indexes, total_freq, unique_tld_freq, files>>

\* parse_domains and everything main does with its result
NextParse ==
    \/ ParseLine
    \/ ParseReturn
    \/ CalculateFrequencies
    \/ WriteCsvTotal
    \/ WriteCsvUnique
    \/ WriteJsonStringToTlds
    \/ WriteJsonTldToStrings
    \/ PrintTop10

Next ==
    \/ Fetch
    \/ FetchFails
    \/ Extract
    \/ NextParse

\* a run of main()
Spec == Init /\ [][Next]_vars

\* parse_domains on given lines and a given exclusion set, then the rest of main()
SpecParse == InitParse /\ [][NextParse]_vars

---------------------------------------------------------------------------
(* Properties of extract_icann_domains (checked under Spec).               *)

\* the lines of the served text
ServedLines == split(response, "\n")

HasStart(line) == Contains(start_marker, line)

HasEnd(line) == Contains(end_marker, line)

\* the smallest and the largest element of a non-empty set of numbers
MinOf(S) == CHOOSE x \in S : \A y \in S : x <= y

MaxOf(S) == CHOOSE x \in S : \A y \in S : y <= x

\* extract_icann_domains has been called and has returned or raised
ExtractionOver == pc \notin {"fetch", "extract"} /\ error # "URLError"

\* C1 as stated: the section runs from the first line holding the start marker to
\* the first line after it holding the end marker, whatever markers come elsewhere.
C1_FirstStartToNextEnd ==
    LET L == ServedLines
        starts == {i \in 1..Len(L) : HasStart(L[i])}
        ends == {j \in 1..Len(L) : HasEnd(L[j]) /\ starts # {} /\ j > MinOf(starts)}
    IN  (ExtractionOver /\ starts # {} /\ ends # {}) =>
            /\ error = "none"
            /\ icann_lines = SubSeq(L, MinOf(starts) + 1, MinOf(ends) - 1)

\* C1 amended: the section ends at the first end line (a line holding the end
\* marker and not the start marker) and starts after the LAST line before it that
\* holds the start marker; with no such line before it the call raises.
C1_LastStartBeforeFirstEnd ==
    LET L == ServedLines
        ends == {j \in 1..Len(L) : HasEnd(L[j]) /\ ~HasStart(L[j])}
        starts == {i \in 1..Len(L) : HasStart(L[i]) /\ ends # {} /\ i < MinOf(ends)}
    IN  (ExtractionOver /\ ends # {}) =>
            IF starts # {}
            THEN /\ error = "none"
                 /\ icann_lines = SubSeq(L, MaxOf(starts) + 1, MinOf(ends) - 1)
            ELSE error = "ValueError"

\* a section was extracted, non-empty, from a text with two start-marker lines
\* before its end line
C1_Witness ==
    LET L == ServedLines
        ends == {j \in 1..Len(L) : HasEnd(L[j]) /\ ~HasStart(L[j])}
    IN  /\ pc = "parse"
        /\ icann_lines # <<>>
        /\ ends # {}
        /\ Cardinality({i \in 1..Len(L) : HasStart(L[i]) /\ i < MinOf(ends)}) >= 2

\* C2: when a marker is absent, or no end marker comes after a start marker, the
\* run stops at extraction with the ValueError and no file is ever written; and a
\* file is written only once extraction and parsing have succeeded.
C2_NoMarkersNoOutput ==
    LET L == ServedLines
        noSection ==
            \/ \A i \in 1..Len(L) : ~HasStart(L[i])
            \/ \A j \in 1..Len(L) : ~HasEnd(L[j])
            \/ ~(\E i, j \in 1..Len(L) : i < j /\ HasStart(L[i]) /\ HasEnd(L[j]))
    IN  /\ noSection =>
            /\ pc \in {"fetch", "extract", "failed"}
            /\ ExtractionOver => error = "ValueError"
            /\ files = EmptyDict
        /\ files # EmptyDict =>
            /\ error = "none"
            /\ pc \notin {"fetch", "extract", "parse", "failed"}
            /\ pos = Len(icann_lines)

\* both markers are in the text, the end marker only before the start marker, and
\* the run has ended with the ValueError
C2_Witness ==
    LET L == ServedLines
    IN  /\ pc = "failed"
        /\ error = "ValueError"
        /\ files = EmptyDict
        /\ \E i, j \in 1..Len(L) : j < i /\ HasStart(L[i]) /\ HasEnd(L[j])

---------------------------------------------------------------------------
(* Properties of parse_domains (checked under SpecParse).                  *)

\* the line the loop has just consumed, trimmed
LastLine == strip(icann_lines[pos])

\* the loop has just consumed a line that is neither blank nor a comment
LastLineIsPattern ==
    /\ pos > 0
    /\ LastLine # <<>>
    /\ ~StartsWith(LastLine, <<"/", "/">>)

\* the number of leading characters of s that are all ch
LeadingRun(s, ch) ==
    Cardinality({k \in 1..Len(s) : \A j \in 1..k : s[j] = ch})

\* the components of `ps` are keys of the indexes when its line is indexed
IndexedWhenKept(ps) ==
    (Len(ps) >= 2 /\ ps[Len(ps)] \notin exclude_tlds) =>
        \A i \in 1..(Len(ps) - 1) : ps[i] \in DOMAIN component_total_count

\* C3 as stated: at most one leading `*` and then at most one leading `!` are
\* removed before the split; further ones stay in the first label.
C3_StripsAtMostOneMarker ==
    LastLineIsPattern =>
        LET noStar == IF Head(LastLine) = "*" THEN Tail(LastLine) ELSE LastLine
            body == IF noStar # <<>> /\ Head(noStar) = "!" THEN Tail(noStar) ELSE noStar
        IN  /\ parts = NonEmptyParts(split(body, "."))
            /\ IndexedWhenKept(parts)

\* C3 amended: the whole run of leading `*` and then the whole run of leading `!`
\* are removed before the split; what follows them (a `*` after a `!` included)
\* stays in the first label and is indexed with it.
C3_StripsEveryLeadingMarker ==
    LastLineIsPattern =>
        LET stars == LeadingRun(LastLine, "*")
            noStar == SubSeq(LastLine, stars + 1, Len(LastLine))
            bangs == LeadingRun(noStar, "!")
            body == SubSeq(noStar, bangs + 1, Len(noStar))
        IN  /\ parts = NonEmptyParts(split(body, "."))
            /\ IndexedWhenKept(parts)

\* the loop has consumed a line of two leading `*` (or two leading `!`) and indexed
\* its first label without any of them
C3_Witness ==
    /\ LastLineIsPattern
    /\ Len(LastLine) >= 2
    /\ LastLine[1] = LastLine[2]
    /\ LastLine[1] \in {"*", "!"}
    /\ Len(parts) = 2
    /\ parts[1] = <<"b">>
    /\ <<"b">> \in DOMAIN component_tlds

\* the labels of a raw line: its non-empty pieces between dots, markers kept
Labels(raw) == NonEmptyParts(split(strip(raw), "."))

\* the TLD of the raw line is in the exclusion set
TldExcluded(raw) ==
    Labels(raw) # <<>> /\ Labels(raw)[Len(Labels(raw))] \in exclude_tlds

\* the parts of a raw line when the loop indexes it, <<>> when it skips it
KeptParts(raw) ==
    LET line == strip(raw)
        ps == NonEmptyParts(split(RemoveMarkers(line), "."))
    IN  IF line = <<>> \/ StartsWith(line, <<"/", "/">>) THEN <<>>
        ELSE IF Len(ps) < 2 THEN <<>>
        ELSE IF ps[Len(ps)] \in exclude_tlds THEN <<>>
        ELSE ps

\* the component positions of the first n lines that were indexed, in order, each
\* as <<component, TLD>>
RECURSIVE IndexedPositions(_)
IndexedPositions(n) ==
    IF n = 0 THEN <<>>
    ELSE LET ps == KeptParts(icann_lines[n])
         IN  IndexedPositions(n - 1) \o
                 [k \in 1..(Len(ps) - 1) |-> <<ps[k], ps[Len(ps)]>>]

\* no index mentions an excluded TLD, nor a component seen on skipped lines only
NoExcludedInIndexes ==
    LET seen == {p[1] : p \in Range(IndexedPositions(pos))}
    IN  /\ \A c \in DOMAIN component_tlds : component_tlds[c] \cap exclude_tlds = {}
        /\ DOMAIN tld_components \cap exclude_tlds = {}
        /\ DOMAIN component_tlds \subseteq seen
        /\ DOMAIN component_total_count \subseteq seen
        /\ \A t \in DOMAIN tld_components : Range(tld_components[t]) \subseteq seen

\* C4: a line whose TLD is in the exclusion set changes none of the three indexes:
\* they are what the consumed lines give with every such line taken out; so no
\* excluded TLD is in any TLD set or a key of the TLD index, and a component seen
\* on excluded lines only has no entry anywhere.
C4_ExcludedLinesIndexNothing ==
    LET consumed == SubSeq(icann_lines, 1, pos)
        others == SelectSeq(consumed, LAMBDA raw : ~TldExcluded(raw))
        without == parse_domains(others, exclude_tlds)
    IN  /\ component_tlds = without.component_tlds
        /\ component_total_count = without.component_total_count
        /\ tld_components = without.tld_components
        /\ NoExcludedInIndexes

\* under an exclusion set other than the default, a line of an excluded TLD has
\* been consumed after a line that was indexed, and its component has no entry
C4_Witness ==
    /\ exclude_tlds # DefaultExcludeTlds
    /\ pos = 2
    /\ TldExcluded(icann_lines[2])
    /\ Len(Labels(icann_lines[2])) >= 2
    /\ Labels(icann_lines[2])[1] \notin DOMAIN component_tlds
    /\ component_tlds # EmptyDict

\* the sum of f over the set S
RECURSIVE SumOver(_, _)
SumOver(f, S) ==
    IF S = {} THEN 0
    ELSE LET x == CHOOSE y \in S : TRUE IN f[x] + SumOver(f, S \ {x})

\* how often c stands in seq
Occurrences(c, seq) == Cardinality({i \in 1..Len(seq) : seq[i] = c})

\* C5: a component's total count is the number of component positions holding it
\* over the indexed lines, repeats within a line included; each position is also
\* one element of its TLD's list, and the TLD is in the component's set once.
C5_CountsWithMultiplicity ==
    LET positions == IndexedPositions(pos)
        components == {p[1] : p \in Range(positions)}
        tlds == {p[2] : p \in Range(positions)}
    IN  /\ DOMAIN component_total_count = components
        /\ DOMAIN component_tlds = components
        /\ DOMAIN tld_components = tlds
        /\ \A c \in components :
               /\ component_total_count[c] =
                      Cardinality({i \in 1..Len(positions) : positions[i][1] = c})
               /\ component_tlds[c] = {p[2] : p \in {q \in Range(positions) : q[1] = c}}
               /\ \A t \in tlds :
                      Occurrences(c, tld_components[t]) =
                          Cardinality({i \in 1..Len(positions) : positions[i] = <<c, t>>})
               /\ pc \notin {"parse", "calculate"} =>
                      /\ total_freq[c] =
                             Cardinality({i \in 1..Len(positions) : positions[i][1] = c})
                      /\ unique_tld_freq[c] =
                             Cardinality({p[2] : p \in {q \in Range(positions) : q[1] = c}})

\* a.a.uk was indexed: a label twice in one pattern counted 2, in the list twice,
\* with one TLD
C5_Witness ==
    /\ pc = "done"
    /\ \E i \in 1..Len(icann_lines) : icann_lines[i] = <<"a", ".", "a", ".", "u", "k">>
    /\ <<"a">> \in DOMAIN total_freq
    /\ total_freq[<<"a">>] = 2
    /\ unique_tld_freq[<<"a">>] = 1
    /\ component_tlds[<<"a">>] = {<<"u", "k">>}
    /\ Occurrences(<<"a">>, tld_components[<<"u", "k">>]) = 2

---------------------------------------------------------------------------
(* Properties of calculate_frequencies and the writers (under SpecParse).  *)

\* calculate_frequencies has returned
Calculated == pc \notin {"parse", "calculate"}

\* C6: a component's unique-TLD frequency is the size of its TLD set, is at least
\* 1 and is at most its total frequency.
C6_UniqueWithinTotal ==
    Calculated =>
        /\ DOMAIN unique_tld_freq = DOMAIN component_tlds
        /\ \A c \in DOMAIN component_tlds :
               /\ unique_tld_freq[c] = Cardinality(component_tlds[c])
               /\ unique_tld_freq[c] >= 1
               /\ c \in DOMAIN total_freq
               /\ unique_tld_freq[c] <= total_freq[c]

\* the views hold a component counted more often than it has TLDs, next to others
C6_Witness ==
    /\ Calculated
    /\ Cardinality(DOMAIN unique_tld_freq) >= 2
    /\ \E c \in DOMAIN unique_tld_freq :
           1 <= unique_tld_freq[c] /\ unique_tld_freq[c] < total_freq[c]

\* rows is strictly ordered by (value descending, string ascending)
StrictlyRanked(rows) ==
    \A i \in 1..(Len(rows) - 1) :
        \/ rows[i][2] > rows[i + 1][2]
        \/ (rows[i][2] = rows[i + 1][2] /\ StrLess(rows[i][1], rows[i + 1][1]))

\* rows holds every (component, value) pair of view exactly once
PermutationOf(rows, view) ==
    /\ Len(rows) = Cardinality(DOMAIN view)
    /\ Range(rows) = {<<c, view[c]>> : c \in DOMAIN view}

\* top is the first TopN rows of rows (all of them when there are fewer)
LeadingRows(top, rows) ==
    /\ Len(top) = (IF Len(rows) < TopN THEN Len(rows) ELSE TopN)
    /\ \A i \in 1..Len(top) : top[i] = rows[i]

\* C7: the rows of each csv file are the pairs of its view, each once, strictly
\* ordered by (value descending, string ascending); each printed top-10 list is
\* the head of that same order.
C7_RowsStrictlyRanked ==
    /\ "sld_popularity_total.csv" \in DOMAIN files =>
           /\ PermutationOf(files["sld_popularity_total.csv"].rows, total_freq)
           /\ StrictlyRanked(files["sld_popularity_total.csv"].rows)
    /\ "sld_popularity_unique_tld.csv" \in DOMAIN files =>
           /\ PermutationOf(files["sld_popularity_unique_tld.csv"].rows, unique_tld_freq)
           /\ StrictlyRanked(files["sld_popularity_unique_tld.csv"].rows)
    /\ pc = "done" =>
           /\ LeadingRows(top_total, files["sld_popularity_total.csv"].rows)
           /\ LeadingRows(top_unique, files["sld_popularity_unique_tld.csv"].rows)

\* the total table has more than TopN rows, a step down in value and a tie
C7_Witness ==
    /\ pc = "done"
    /\ LET rows == files["sld_popularity_total.csv"].rows
       IN  /\ Len(rows) > TopN
           /\ Len(top_total) = TopN
           /\ \E i \in 1..(Len(rows) - 1) : rows[i][2] > rows[i + 1][2]
           /\ \E i \in 1..(Len(rows) - 1) : rows[i][2] = rows[i + 1][2]

\* C8: the TLD-detail output has the TLD keys in ascending order, and for each TLD
\* every distinct component of its list exactly once, ordered by the component's
\* global total count descending, then by string ascending.
C8_TldDetailRanked ==
    "sld_tld_to_strings.json" \in DOMAIN files =>
        LET data == files["sld_tld_to_strings.json"]
        IN  /\ Len(data) = Cardinality(DOMAIN tld_components)
            /\ {data[i].key : i \in 1..Len(data)} = DOMAIN tld_components
            /\ \A i \in 1..(Len(data) - 1) : StrLess(data[i].key, data[i + 1].key)
            /\ \A i \in 1..Len(data) :
                   LET strings == data[i].strings
                   IN  /\ Range(strings) = Range(tld_components[data[i].key])
                       /\ Len(strings) = Cardinality(Range(strings))
                       /\ StrictlyRanked(
                              [k \in 1..Len(strings) |->
                                  <<strings[k], component_total_count[strings[k]]>>])

\* there are two TLD keys and, in one TLD's output, a component stands before an
\* alphabetically smaller one that it ties with inside the TLD and beats only
\* globally
C8_Witness ==
    /\ "sld_tld_to_strings.json" \in DOMAIN files
    /\ LET data == files["sld_tld_to_strings.json"]
       IN  /\ Len(data) >= 2
           /\ \E i \in 1..Len(data) :
                  LET strings == data[i].strings
                      list == tld_components[data[i].key]
                  IN  \E k \in 1..(Len(strings) - 1) :
                          /\ StrLess(strings[k + 1], strings[k])
                          /\ Occurrences(strings[k], list) = Occurrences(strings[k + 1], list)
                          /\ component_total_count[strings[k]] >
                                 component_total_count[strings[k + 1]]

\* C10: at every point of the loop the three indexes agree: the two component
\* indexes have the same keys; t is in c's TLD set exactly when c is in t's list;
\* the counts add up to the lengths of the lists; no key or element is empty.
C10_IndexesConsistent ==
    /\ DOMAIN component_tlds = DOMAIN component_total_count
    /\ \A c \in DOMAIN component_tlds : \A t \in component_tlds[c] :
           t \in DOMAIN tld_components /\ c \in Range(tld_components[t])
    /\ \A t \in DOMAIN tld_components : \A c \in Range(tld_components[t]) :
           c \in DOMAIN component_tlds /\ t \in component_tlds[c]
    /\ SumOver(component_total_count, DOMAIN component_total_count) =
           SumOver([t \in DOMAIN tld_components |-> Len(tld_components[t])],
                   DOMAIN tld_components)
    /\ <<>> \notin DOMAIN component_tlds
    /\ <<>> \notin DOMAIN tld_components
    /\ \A t \in DOMAIN tld_components : <<>> \notin Range(tld_components[t])

\* the loop is between two lines, with a component repeated in a TLD's list
C10_Witness ==
    /\ pc = "parse"
    /\ 0 < pos
    /\ pos < Len(icann_lines)
    /\ \E t \in DOMAIN tld_components :
           Len(tld_components[t]) > Cardinality(Range(tld_components[t]))

---------------------------------------------------------------------------
(* Frame property of the stages after parse_domains (checked under Spec).  *)

\* C9: once parse_domains has returned, no step (calculate_frequencies, the four
\* writers, the printing) changes any key or value of the three indexes.
C9_IndexesFrozenAfterParse ==
    [][pc \notin {"fetch", "extract", "parse"} => UNCHANGED indexes]_vars

\* all four files are written from indexes that are not empty
C9_Witness ==
    /\ pc = "done"
    /\ Cardinality(DOMAIN files) = 4
    /\ component_total_count # EmptyDict
    /\ tld_components # EmptyDict

====
